---- MODULE Spec2Model ----
(***************************************************************************)
(* State-machine model of pdf_crawler.py: the crawl() main loop, the      *)
(* download_pdf workers, the monitor_performance thread, the checkpoint    *)
(* store and the manifest buffer.  One process run after another shares    *)
(* the disk (checkpoint file, its .tmp, downloaded files, the CSV report). *)
(*                                                                         *)
(* URLs are sequences of tokens (substrings), so that prefix tests and     *)
(* fragment stripping work on the string form as they do in the code.      *)
(* Write-only statistics (errors, bytes_downloaded, current_speed_mbps)    *)
(* are left out: nothing in the program reads them back except the status  *)
(* line.                                                                   *)
(***************************************************************************)
EXTENDS Integers, Sequences, FiniteSets, Bags, TLC

\* ---------------------------------------------------------------- bounds
MaxRuns == 2
MaxLinks == 2
MaxCap == 3
MaxSignals == 2

\* ------------------------------------------------------ program constants
InitialLimit == 2
DefaultCap == 30
FlushInterval == 50

\* ------------------------------------------------------------------ URLs
Host == "http://h"
StartUrl == <<Host, "/", "d">>
DocA == <<Host, "/", "d", "/", "a.pdf">>
PageP == <<Host, "/", "d", "/", "p">>
PagePFrag == <<Host, "/", "d", "/", "p", "#", "f">>
Sibling == <<Host, "/", "d", "2">>
DocAQuery == DocA \o <<"?", "q">>

\* the resolved hrefs (urljoin results) a fetched page may contain
RawLinks == {DocA, PageP, PagePFrag, Sibling}

\* tokens that contain a '.', and tokens that end in ".pdf"
DotTokens == {"a.pdf", "b.pdf", "r.pdf", "x.pdf", "index_doc.pdf",
              "Report (Final).pdf", ".", ".."}
PdfTokens == {"a.pdf", "b.pdf", "r.pdf", "x.pdf", "index_doc.pdf",
              "Report (Final).pdf"}

\* the characters sanitize_filename replaces, the double quote among them,
\* and the null byte it removes
Quote == "\""
ReservedTokens == {"<", ">", ":", Quote, "/", "\\", "|", "?", "*"}
Nul == "NUL"

\* Content-Disposition headers a server may send with a document; an absent
\* header and an absent filename are empty
NoHeader == <<>>
NoName == <<>>
Attachment(name) == <<"attachment; ", "filename=", Quote>> \o name \o <<Quote>>
CdHeaders == {NoHeader, Attachment(<<"r.pdf">>)}

\* an absent file and a file cut short
NoFile == [kind |-> "absent"]
Partial == [kind |-> "partial"]

Max(a, b) == IF a >= b THEN a ELSE b

Range(s) == {s[i] : i \in 1..Len(s)}

\* mutant of StripFragment: the fragment kept
StripFragmentKept(u) == u

\* abs_url.split('#')[0]
StripFragment(u) ==
    LET hashes == {i \in 1..Len(u) : u[i] = "#"}
    IN IF hashes = {} THEN u
       ELSE SubSeq(u, 1, (CHOOSE i \in hashes : \A j \in hashes : i <= j) - 1)

StartsWith(s, p) == Len(p) <= Len(s) /\ SubSeq(s, 1, Len(p)) = p

EndsWithSlash(u) == Len(u) > 0 /\ u[Len(u)] = "/"

\* mutant of NormalizeScope: the trailing separator not added
NormalizeScopeAsGiven(u) == u

\* state.start_url if it ends with '/' else state.start_url + '/'
NormalizeScope(u) == IF EndsWithSlash(u) THEN u ELSE u \o <<"/">>

is_subpath(target_url, root_url) == StartsWith(target_url, NormalizeScope(root_url))

\* current_url.lower().endswith('.pdf')
EndsWithPdf(u) == Len(u) > 0 /\ u[Len(u)] \in PdfTokens

AbsUrls == {StripFragment(l) : l \in RawLinks} \cup {StartUrl, DocAQuery}

\* ------------------------------------------------------ local file paths
Min(S) == CHOOSE x \in S : \A y \in S : x <= y

\* sanitize_filename: "unknown_file" for an empty name, null bytes removed,
\* every reserved character replaced by '_'
sanitize_filename(name) ==
    IF name = <<>> THEN <<"unknown_file">>
    ELSE LET kept == SelectSeq(name, LAMBDA t : t # Nul)
         IN [i \in 1..Len(kept) |-> IF kept[i] \in ReservedTokens THEN "_" ELSE kept[i]]

\* the run of non-quote characters after the i-th token `filename=` and an
\* optional opening quote: the group of the regular expression
NameAt(cd, i) ==
    LET j == IF i + 1 <= Len(cd) /\ cd[i + 1] = Quote THEN i + 2 ELSE i + 1
        stops == {k \in j..Len(cd) : cd[k] = Quote}
    IN SubSeq(cd, j, IF stops = {} THEN Len(cd) ELSE Min(stops) - 1)

\* get_filename_from_cd: the first match of filename="?([^"]+)"?
get_filename_from_cd(cd) ==
    LET matches == {i \in 1..Len(cd) : cd[i] = "filename=" /\ NameAt(cd, i) # <<>>}
    IN IF matches = {} THEN NoName ELSE NameAt(cd, Min(matches))

\* urllib.parse.unquote on the percent-encoded tokens of the model
Unquote(s) ==
    [i \in 1..Len(s) |-> IF s[i] = "%2e%2e" THEN ".."
                         ELSE IF s[i] = "%2f" THEN "/"
                         ELSE s[i]]

\* urlparse(url).netloc
Netloc(u) == IF Len(u) > 0 /\ u[1] = Host THEN <<"h">> ELSE <<>>

\* urlparse(url).path: after scheme and host, up to the query or fragment
UrlPath(u) ==
    LET ends == {i \in 1..Len(u) : u[i] \in {"?", "#"}}
    IN SubSeq(u, 2, IF ends = {} THEN Len(u) ELSE Min(ends) - 1)

\* str.lstrip('/')
LStripSlash(p) ==
    LET rest == {i \in 1..Len(p) : p[i] # "/"}
    IN IF rest = {} THEN <<>> ELSE SubSeq(p, Min(rest), Len(p))

\* the position of the last '/', 0 when there is none
LastSlash(p) ==
    LET at == {i \in 1..Len(p) : p[i] = "/"}
    IN IF at = {} THEN 0 ELSE CHOOSE i \in at : \A k \in at : k <= i

\* os.path.basename and os.path.dirname
Basename(p) == SubSeq(p, LastSlash(p) + 1, Len(p))
Dirname(p) == SubSeq(p, 1, LastSlash(p) - 1)

\* '.' in name
HasDot(name) == \E i \in 1..Len(name) : name[i] \in DotTokens

\* directory_part.split('/') without the empty parts
RECURSIVE DirSegments(_)
DirSegments(p) ==
    IF p = <<>> THEN <<>>
    ELSE IF Head(p) = "/" THEN DirSegments(Tail(p))
    ELSE LET at == {i \in 1..Len(p) : p[i] = "/"}
             n == IF at = {} THEN Len(p) + 1 ELSE Min(at)
         IN <<SubSeq(p, 1, n - 1)>> \o DirSegments(SubSeq(p, n, Len(p)))

\* mutant of ResolveFilename: the URL basename preferred to the header
ResolveFilenameUrlFirst(fromcd, base) ==
    IF base # <<>> /\ HasDot(base) THEN Unquote(base)
    ELSE IF fromcd # NoName THEN fromcd
    ELSE <<"index_doc.pdf">>

\* the filename: from the header, else the URL basename, else the default
ResolveFilename(fromcd, base) ==
    IF fromcd # NoName THEN fromcd
    ELSE IF base = <<>> \/ ~HasDot(base) THEN <<"index_doc.pdf">>
    ELSE Unquote(base)

\* get_local_path below base_dir: the domain directory, the sanitized
\* directory components, the sanitized filename
get_local_path(url, content_disposition) ==
    LET path_path == LStripSlash(Unquote(UrlPath(url)))
        directory_part == IF HasDot(Basename(path_path))
                          THEN Dirname(path_path) ELSE path_path
        parts == DirSegments(directory_part)
        fromcd == IF content_disposition # NoHeader
                  THEN get_filename_from_cd(content_disposition) ELSE NoName
        filename == ResolveFilename(fromcd, Basename(UrlPath(url)))
    IN <<sanitize_filename(Netloc(url))>>
           \o [i \in 1..Len(parts) |-> sanitize_filename(parts[i])]
           \o <<sanitize_filename(filename)>>

\* get_local_path for every URL of the site and every header a server
\* sends, as a table
LocalPaths == [u \in AbsUrls, cd \in CdHeaders |-> get_local_path(u, cd)]

\* ------------------------------------------------------------- AIMD steps
\* mutant of Halve: the floor of 1 forgotten
HalveUnclamped(l) == l \div 2

\* max(1, state.concurrency_limit // 2)
Halve(l) == Max(1, l \div 2)

\* mutant of Increase: the saturation test forgotten
IncreaseAlways(active, l, cap) == IF l < cap THEN l + 1 ELSE l

\* the monitor's additive increase
Increase(active, l, cap) == IF active >= l - 1 /\ l < cap THEN l + 1 ELSE l

\* mutant of CanSubmit: off by one
CanSubmitAtLimit(active, l) == active <= l

\* the dispatcher's admission test
CanSubmit(active, l) == active < l


\* ------------------------------------------------------ checkpoint format
Reverse(s) == [i \in 1..Len(s) |-> s[Len(s) + 1 - i]]

\* list(self.visited): the elements of the set in iteration order, which
\* differs from process to process; one order and its reverse stand for it
Orderings(S) ==
    LET one == CHOOSE s \in [1..Cardinality(S) -> S] : Range(s) = S
    IN {one, Reverse(one)}

\* a key of a parsed JSON object is present
HasKey(c, k) == k \in DOMAIN c

\* dict.get(k, default)
Get(c, k, default) == IF HasKey(c, k) THEN c[k] ELSE default

\* the CrawlerState fields load_checkpoint may assign, and its return value
Memory(v, q, su, sc, dl) ==
    [ok |-> FALSE, visited |-> v, queue |-> q, start_url |-> su,
     scanned |-> sc, downloaded |-> dl]

\* mutant of load_checkpoint: the queue rebuilt back to front
load_checkpoint_reversed(c, m) ==
    [ok |-> TRUE,
     visited |-> Range(c.visited),
     queue |-> Reverse(c.queue),
     start_url |-> Get(c, "start_url", <<>>),
     scanned |-> Get(c.stats, "scanned", 0),
     downloaded |-> Get(c.stats, "downloaded", 0)]

\* load_checkpoint on the file content c with the state fields m: the
\* assignments run in source order, and the first failing statement
\* (json.load, data["visited"], data["queue"], data["stats"]) leaves the
\* earlier assignments in place and returns False
load_checkpoint(c, m) ==
    IF c.kind # "json" \/ ~HasKey(c, "visited") THEN m
    ELSE LET m1 == [m EXCEPT !.visited = Range(c.visited)]
         IN IF ~HasKey(c, "queue") THEN m1
            ELSE LET m2 == [m1 EXCEPT !.queue = c.queue,
                                      !.start_url = Get(c, "start_url", <<>>)]
                 IN IF ~HasKey(c, "stats") THEN m2
                    ELSE [m2 EXCEPT !.scanned = Get(c.stats, "scanned", 0),
                                    !.downloaded = Get(c.stats, "downloaded", 0),
                                    !.ok = TRUE]

\* the part of the dict literal evaluated after "visited"
SnapshotRest(q, su, sc, dl) ==
    [kind |-> "json", queue |-> q, start_url |-> su,
     stats |-> [scanned |-> sc, downloaded |-> dl]]

\* one row of the manifest buffer
ManifestEntry(url, status) == [url |-> url, status |-> status]

\* mutant of AppendCsv: the report opened with 'w' instead of 'a'
AppendCsvTruncating(file, rows) == <<"header">> \o rows

\* save_manifest_csv: header when the file is new, then the buffered rows
AppendCsv(file, rows) == (IF file = <<>> THEN <<"header">> ELSE file) \o rows

\* the record of a download task handed to the pool
NewTask(url) == [url |-> url, wpc |-> "start", cd |-> NoHeader, nlog |-> 0]

NoUrl == <<>>

VARIABLES
    pc,                  \* position of the main thread in crawl()
    run,                 \* number of the current process run
    max_threads_cap,     \* crawl() argument
    scanned, downloaded, \* CrawlerState statistics
    active_downloads, concurrency_limit, max_concurrency_cap,
    visited, queue, start_url, manifest_log,
    lock,                \* state.lock: "free" or the thread inside save_checkpoint
    current_url, scope_url, nlinks, abs_url, resumed,   \* locals of crawl()
    tasks,               \* bag of download tasks in the pool
    mpc, stop_monitor,   \* monitor thread position, stop_event
    spc, data,           \* position inside save_checkpoint, its local dict
    ckpt, tmp, files, csv,   \* disk: checkpoint, checkpoint.tmp, downloads, report
    popped, popUnvisited,    \* history: pops per URL in this run; a pop of an unvisited URL
    admitLimit,              \* history: concurrency_limit seen by the latest admitting check
    tickLimit, nfail,        \* history: limit after the last tick, failures since
    origin,                  \* history: the in-memory values each stored snapshot was read from
    ckptBefore,              \* history: a checkpoint file existed when save_checkpoint started
    owed,                    \* history: the URLs unfinished when the loaded checkpoint was taken
    hstack,                  \* main thread: the positions interrupted by signal handlers
    rec,                     \* history: whether this behaviour keeps the records below
    enq, deq,                \* history: the URLs put on the queue and taken off it, in order
    pages,                   \* history: the pages fetched and scanned for links in this run
    lastErr,                 \* history: the request of the dispatcher that has just failed
    flushedAt,               \* history: state.downloaded at the latest periodic flush
    logged,                  \* history: the manifest entries logged in this run
    call                     \* a utility function under test: its arguments and result

stats == <<scanned, downloaded>>
conc == <<active_downloads, concurrency_limit, max_concurrency_cap>>
frontier == <<visited, queue, start_url>>
locals == <<current_url, scope_url, nlinks, abs_url, resumed>>
mon == <<mpc, stop_monitor>>
saving == <<spc, data, ckptBefore>>
disk == <<ckpt, tmp, files, csv>>
hist == <<popped, popUnvisited, admitLimit, tickLimit, nfail, owed>>
proc == <<run, max_threads_cap, call, rec>>
trace == <<enq, deq, pages, lastErr, flushedAt, logged>>

vars == <<pc, proc, stats, conc, frontier, manifest_log, lock, locals, tasks, mon,
          saving, disk, hist, origin, hstack, trace>>

\* no utility function is under test
NoCall == [fn |-> "none"]

NoOrigin == [data |-> NoFile, tmp |-> NoFile, ckpt |-> NoFile]

\* CrawlerState.__init__ and the not-yet-started threads
FreshMemory ==
    /\ scanned = 0 /\ downloaded = 0
    /\ active_downloads = 0
    /\ concurrency_limit = InitialLimit
    /\ max_concurrency_cap = DefaultCap
    /\ visited = {} /\ queue = <<>> /\ start_url = <<>> /\ manifest_log = <<>>
    /\ lock = "free"
    /\ current_url = NoUrl /\ scope_url = NoUrl /\ nlinks = 0 /\ abs_url = NoUrl
    /\ resumed = FALSE
    /\ tasks = EmptyBag
    /\ mpc = "off" /\ stop_monitor = FALSE
    /\ spc = "idle" /\ data = NoFile /\ ckptBefore = FALSE
    /\ popped = [u \in AbsUrls |-> 0] /\ popUnvisited = FALSE
    /\ admitLimit = InitialLimit /\ tickLimit = InitialLimit /\ nfail = 0
    /\ owed = {}
    /\ hstack = <<>>
    /\ enq = <<>> /\ deq = <<>> /\ pages = 0 /\ lastErr = "none"
    /\ flushedAt = 0 /\ logged = <<>>

Init ==
    /\ pc = "start"
    /\ run = 1
    /\ max_threads_cap \in 1..MaxCap
    /\ call = NoCall
    /\ rec = FALSE
    /\ FreshMemory
    /\ ckpt = NoFile /\ tmp = NoFile /\ files = {} /\ csv = <<>>
    /\ origin = NoOrigin

Alive == pc \notin {"dead", "done", "stopped"}


\* the in-memory state of a process that is not running
ResetMemory ==
    /\ scanned' = 0 /\ downloaded' = 0
    /\ active_downloads' = 0
    /\ concurrency_limit' = InitialLimit
    /\ max_concurrency_cap' = DefaultCap
    /\ visited' = {} /\ queue' = <<>> /\ start_url' = <<>> /\ manifest_log' = <<>>
    /\ lock' = "free"
    /\ current_url' = NoUrl /\ scope_url' = NoUrl /\ nlinks' = 0 /\ abs_url' = NoUrl
    /\ resumed' = FALSE
    /\ tasks' = EmptyBag
    /\ mpc' = "off" /\ stop_monitor' = FALSE
    /\ spc' = "idle" /\ data' = NoFile /\ ckptBefore' = FALSE
    /\ popped' = [u \in AbsUrls |-> 0] /\ popUnvisited' = FALSE
    /\ admitLimit' = InitialLimit /\ tickLimit' = InitialLimit /\ nfail' = 0
    /\ owed' = {}
    /\ hstack' = <<>>
    /\ enq' = <<>> /\ deq' = <<>> /\ pages' = 0 /\ lastErr' = "none"
    /\ flushedAt' = 0 /\ logged' = <<>>
    /\ origin' = [origin EXCEPT !.data = NoFile]

\* ================================================================ crawl()
\* state.load_checkpoint(): absent file -> False, else the fields are loaded
LoadCheckpoint ==
    /\ pc = "start"
    /\ IF ckpt = NoFile
       THEN /\ pc' = "seed_q"
            /\ UNCHANGED <<frontier, stats, resumed, owed, enq>>
       ELSE LET m == load_checkpoint(ckpt,
                         Memory(visited, queue, start_url, scanned, downloaded))
            IN /\ visited' = m.visited
               /\ queue' = m.queue
               /\ start_url' = m.start_url
               /\ scanned' = m.scanned
               /\ downloaded' = m.downloaded
               /\ resumed' = m.ok
               /\ owed' = IF m.ok /\ origin.ckpt.kind = "json"
                          THEN Range(origin.ckpt.queue) \cup origin.ckpt.busy
                          ELSE {}
               /\ enq' = IF ~rec THEN enq
                         ELSE IF origin.ckpt.kind = "json" THEN origin.ckpt.queue
                         ELSE m.queue
               /\ pc' = IF m.ok THEN "setup" ELSE "seed_q"
    /\ UNCHANGED <<proc, conc, manifest_log, lock, current_url, scope_url, nlinks,
                   abs_url, tasks, mon, saving, disk, popped, popUnvisited, admitLimit,
                   tickLimit, nfail, origin, hstack, deq, pages, lastErr,
                   flushedAt, logged>>

\* state.queue.append(start_url)
SeedQueue ==
    /\ pc = "seed_q"
    /\ queue' = Append(queue, StartUrl)
    /\ enq' = IF rec THEN Append(enq, StartUrl) ELSE enq
    /\ pc' = "seed_v"
    /\ UNCHANGED <<proc, stats, conc, visited, start_url, manifest_log, lock, locals,
                   tasks, mon, saving, disk, hist, origin, hstack, deq, pages, lastErr,
                   flushedAt, logged>>

\* state.visited.add(start_url)
SeedVisited ==
    /\ pc = "seed_v"
    /\ visited' = visited \cup {StartUrl}
    /\ pc' = "seed_s"
    /\ UNCHANGED <<proc, stats, conc, queue, start_url, manifest_log, lock, locals,
                   tasks, mon, saving, disk, hist, origin, hstack, trace>>

\* state.start_url = start_url
SeedStartUrl ==
    /\ pc = "seed_s"
    /\ start_url' = StartUrl
    /\ pc' = "setup"
    /\ UNCHANGED <<proc, stats, conc, visited, queue, manifest_log, lock, locals,
                   tasks, mon, saving, disk, hist, origin, hstack, trace>>

\* scope normalisation, the ceiling, and the start of the monitor thread
Setup ==
    /\ pc = "setup"
    /\ scope_url' = NormalizeScope(start_url)
    /\ max_concurrency_cap' = max_threads_cap
    /\ mpc' = "check"
    /\ pc' = "loop"
    /\ UNCHANGED <<proc, stats, active_downloads, concurrency_limit, frontier,
                   manifest_log, lock, current_url, nlinks, abs_url, resumed, tasks,
                   stop_monitor, saving, disk, hist, origin, hstack, trace>>

FlushDue == downloaded > 0 /\ downloaded % FlushInterval = 0

\* top of the while loop: loop test, periodic manifest flush, empty-queue wait
LoopTop ==
    /\ pc = "loop"
    /\ IF queue = <<>> /\ ~(active_downloads > 0)
       THEN /\ pc' = "cleanup"
            /\ UNCHANGED <<manifest_log, csv>>
       ELSE /\ IF FlushDue /\ manifest_log # <<>>
               THEN /\ lock = "free"
                    /\ csv' = AppendCsv(csv, manifest_log)
                    /\ manifest_log' = <<>>
               ELSE /\ FlushDue => lock = "free"
                    /\ UNCHANGED <<manifest_log, csv>>
            /\ pc' = IF queue = <<>> THEN "loop" ELSE "admit"
    /\ lastErr' = "none"
    /\ flushedAt' = IF pc' # "cleanup" /\ FlushDue THEN downloaded ELSE flushedAt
    /\ UNCHANGED <<proc, stats, conc, frontier, lock, locals, tasks, mon, saving,
                   ckpt, tmp, files, hist, origin, hstack, enq, deq, pages, logged>>

\* the same iteration when the periodic flush cannot write the report: the
\* error is printed and the buffer kept
LoopTopFlushFails ==
    /\ pc = "loop"
    /\ ~(queue = <<>> /\ ~(active_downloads > 0))
    /\ FlushDue /\ manifest_log # <<>>
    /\ lock = "free"
    /\ pc' = IF queue = <<>> THEN "loop" ELSE "admit"
    /\ lastErr' = "none"
    /\ flushedAt' = downloaded
    /\ UNCHANGED <<proc, stats, conc, frontier, manifest_log, lock, locals, tasks, mon,
                   saving, disk, hist, origin, hstack, enq, deq, pages, logged>>

\* the throttle: with state.lock, can_submit = active_downloads < concurrency_limit
Admit ==
    /\ pc = "admit"
    /\ lock = "free"
    /\ pc' = IF CanSubmit(active_downloads, concurrency_limit) THEN "pop" ELSE "loop"
    /\ admitLimit' = IF CanSubmit(active_downloads, concurrency_limit)
                     THEN concurrency_limit ELSE admitLimit
    /\ UNCHANGED <<proc, stats, conc, frontier, manifest_log, lock, locals, tasks, mon,
                   saving, disk, popped, popUnvisited, tickLimit, nfail, owed, origin,
                   hstack, trace>>

\* current_url = state.queue.popleft()
Pop ==
    /\ pc = "pop"
    /\ current_url' = Head(queue)
    /\ queue' = Tail(queue)
    /\ popped' = [popped EXCEPT ![Head(queue)] = @ + 1]
    /\ popUnvisited' = (popUnvisited \/ Head(queue) \notin visited)
    /\ deq' = IF rec THEN Append(deq, Head(queue)) ELSE deq
    /\ pc' = "head"
    /\ UNCHANGED <<proc, stats, conc, visited, start_url, manifest_log, lock, scope_url,
                   nlinks, abs_url, resumed, tasks, mon, saving, disk, admitLimit,
                   tickLimit, nfail, owed, origin, hstack, enq, pages, lastErr,
                   flushedAt, logged>>

\* the HEAD probe and the classification of current_url
HeadProbe ==
    /\ pc = "head"
    /\ \E outcome \in {"error", "pdf", "html", "other"} :
         /\ pc' = IF outcome = "error" THEN "loop"
                  ELSE IF outcome = "pdf" \/ EndsWithPdf(current_url) THEN "inc"
                  ELSE IF outcome = "html" THEN "get"
                  ELSE "loop"
         /\ lastErr' = IF rec /\ outcome = "error" THEN "head" ELSE "none"
    /\ current_url' = IF pc' = "loop" THEN NoUrl ELSE current_url
    /\ UNCHANGED <<proc, stats, conc, frontier, manifest_log, lock, scope_url, nlinks,
                   abs_url, resumed, tasks, mon, saving, disk, hist, origin, hstack,
                   enq, deq, pages, flushedAt, logged>>

\* with state.lock: state.active_downloads += 1
IncActive ==
    /\ pc = "inc"
    /\ lock = "free"
    /\ active_downloads' = active_downloads + 1
    /\ pc' = "submit"
    /\ UNCHANGED <<proc, stats, concurrency_limit, max_concurrency_cap, frontier,
                   manifest_log, lock, locals, tasks, mon, saving, disk, hist, origin, hstack, trace>>

\* executor.submit(download_pdf, ...) and add_done_callback(download_task_done)
Submit ==
    /\ pc = "submit"
    /\ tasks' = tasks (+) SetToBag({NewTask(current_url)})
    /\ current_url' = NoUrl
    /\ pc' = "loop"
    /\ UNCHANGED <<proc, stats, conc, frontier, manifest_log, lock, scope_url, nlinks,
                   abs_url, resumed, mon, saving, disk, hist, origin, hstack, trace>>

\* executor.submit raises (no thread can be started): except Exception: pass
SubmitFails ==
    /\ pc = "submit"
    /\ current_url' = NoUrl
    /\ pc' = "loop"
    /\ UNCHANGED <<proc, stats, conc, frontier, manifest_log, lock, scope_url, nlinks,
                   abs_url, resumed, tasks, mon, saving, disk, hist, origin, hstack, trace>>

\* session.get(current_url) for a page; an exception abandons the page
GetPage ==
    /\ pc = "get"
    /\ \E ok \in BOOLEAN : pc' = IF ok THEN "links" ELSE "loop"
    /\ nlinks' = 0
    /\ current_url' = IF pc' = "loop" THEN NoUrl ELSE current_url
    /\ pages' = IF rec /\ pc' = "links" THEN pages + 1 ELSE pages
    /\ lastErr' = IF rec /\ pc' = "loop" THEN "page" ELSE "none"
    /\ UNCHANGED <<proc, stats, conc, frontier, manifest_log, lock, scope_url, abs_url,
                   resumed, tasks, mon, saving, disk, hist, origin, hstack, enq, deq,
                   flushedAt, logged>>

\* one iteration of the link loop, for the resolved href raw, up to the
\* scope test
LinkStep(raw) ==
    /\ pc = "links"
    /\ LET u == StripFragment(raw)
           keep == u \notin visited /\ is_subpath(u, scope_url)
       IN /\ abs_url' = IF keep THEN u ELSE NoUrl
          /\ pc' = IF keep THEN "vadd" ELSE "links"
    /\ nlinks' = nlinks + 1
    /\ UNCHANGED <<proc, stats, conc, frontier, manifest_log, lock, current_url,
                   scope_url, resumed, tasks, mon, saving, disk, hist, origin, hstack, trace>>

\* the next link of a page, whatever the page holds
NextLink ==
    /\ nlinks < MaxLinks
    /\ \E raw \in RawLinks : LinkStep(raw)

\* the page has no more links (or parsing raised): back to the loop top
EndLinks ==
    /\ pc = "links"
    /\ pc' = "loop"
    /\ nlinks' = 0
    /\ current_url' = NoUrl
    /\ UNCHANGED <<proc, stats, conc, frontier, manifest_log, lock, scope_url, abs_url,
                   resumed, tasks, mon, saving, disk, hist, origin, hstack, trace>>

\* state.visited.add(abs_url)
VisitedAdd ==
    /\ pc = "vadd"
    /\ visited' = visited \cup {abs_url}
    /\ pc' = "qapp"
    /\ UNCHANGED <<proc, stats, conc, queue, start_url, manifest_log, lock, locals,
                   tasks, mon, saving, disk, hist, origin, hstack, trace>>

\* state.queue.append(abs_url)
QueueAppend ==
    /\ pc = "qapp"
    /\ queue' = Append(queue, abs_url)
    /\ enq' = IF rec THEN Append(enq, abs_url) ELSE enq
    /\ pc' = "scan"
    /\ UNCHANGED <<proc, stats, conc, visited, start_url, manifest_log, lock, locals,
                   tasks, mon, saving, disk, hist, origin, hstack, deq, pages, lastErr,
                   flushedAt, logged>>

\* with state.lock: state.scanned += 1
ScannedInc ==
    /\ pc = "scan"
    /\ lock = "free"
    /\ scanned' = scanned + 1
    /\ abs_url' = NoUrl
    /\ pc' = "links"
    /\ UNCHANGED <<proc, downloaded, conc, frontier, manifest_log, lock, current_url,
                   scope_url, nlinks, resumed, tasks, mon, saving, disk, hist, origin, hstack, trace>>

\* stop_monitor.set()
Cleanup ==
    /\ pc = "cleanup"
    /\ stop_monitor' = TRUE
    /\ pc' = "final_flush"
    /\ UNCHANGED <<proc, stats, conc, frontier, manifest_log, lock, locals, tasks, mpc,
                   saving, disk, hist, origin, hstack, trace>>

\* save_manifest_csv(output_dir), the final flush
FinalFlush ==
    /\ pc = "final_flush"
    /\ lock = "free"
    /\ IF manifest_log # <<>>
       THEN /\ csv' = AppendCsv(csv, manifest_log)
            /\ manifest_log' = <<>>
       ELSE UNCHANGED <<manifest_log, csv>>
    /\ pc' = "rm_ckpt"
    /\ UNCHANGED <<proc, stats, conc, frontier, lock, locals, tasks, mon, saving,
                   ckpt, tmp, files, hist, origin, hstack, trace>>

\* the final flush cannot write the report: the error is printed
FinalFlushFails ==
    /\ pc = "final_flush"
    /\ lock = "free"
    /\ manifest_log # <<>>
    /\ pc' = "rm_ckpt"
    /\ UNCHANGED <<proc, stats, conc, frontier, manifest_log, lock, locals, tasks, mon,
                   saving, disk, hist, origin, hstack, trace>>

\* if os.path.exists("crawler_checkpoint.json"): os.remove(...)
RemoveCheckpoint ==
    /\ pc = "rm_ckpt"
    /\ ckpt' = NoFile
    /\ origin' = [origin EXCEPT !.ckpt = NoFile]
    /\ pc' = "exiting"
    /\ UNCHANGED <<proc, stats, conc, frontier, manifest_log, lock, locals, tasks, mon,
                   saving, tmp, files, csv, hist, hstack, trace>>

\* crawl() returns and the interpreter exits; the daemon monitor dies with it
ProcessExit ==
    /\ pc = "exiting"
    /\ pc' = "done"
    /\ ResetMemory
    /\ UNCHANGED <<proc, disk>>

\* ========================================================= download_pdf()
Replace(t, t2) == (tasks (-) SetToBag({t})) (+) SetToBag({t2})

TasksAt(w) == {t \in BagToSet(tasks) : t.wpc = w}

\* log_manifest(url, local_path, status), called by task t which goes on to `next`
LogManifest(t, status, next) ==
    /\ lock = "free"
    /\ manifest_log' = Append(manifest_log, ManifestEntry(t.url, status))
    /\ logged' = IF rec THEN Append(logged, ManifestEntry(t.url, status)) ELSE logged
    /\ tasks' = Replace(t, [t EXCEPT !.wpc = next, !.nlog = @ + 1])

\* the download tasks that occupy a thread of the pool
PoolBusy == BagCardinality(tasks) - BagCardinality([t \in TasksAt("start") |-> tasks[t]])

\* a free thread of the pool (max_workers = max_threads_cap) takes the task;
\* pre-check: the file named after the URL alone exists and is not empty -> return
WorkerPreCheck ==
    /\ PoolBusy < max_threads_cap
    /\ \E t \in TasksAt("start") :
         tasks' = Replace(t, [t EXCEPT !.wpc =
                     IF LocalPaths[t.url, NoHeader] \in files THEN "finished" ELSE "get"])
    /\ UNCHANGED <<pc, proc, stats, conc, frontier, manifest_log, lock, locals, mon,
                   saving, disk, hist, origin, hstack, trace>>

\* session.get succeeds; the header names the file; final existence check
WorkerGet ==
    /\ \E t \in TasksAt("get") : \E cd \in CdHeaders :
         tasks' = Replace(t, [t EXCEPT !.cd = cd, !.wpc =
                     IF LocalPaths[t.url, cd] \in files THEN "logskip" ELSE "write"])
    /\ UNCHANGED <<pc, proc, stats, conc, frontier, manifest_log, lock, locals, mon,
                   saving, disk, hist, origin, hstack, trace>>

\* session.get or raise_for_status raises
WorkerGetFails ==
    /\ \E t \in TasksAt("get") : tasks' = Replace(t, [t EXCEPT !.wpc = "fail"])
    /\ UNCHANGED <<pc, proc, stats, conc, frontier, manifest_log, lock, locals, mon,
                   saving, disk, hist, origin, hstack, trace>>

\* log_manifest(url, local_path, "SKIPPED_EXISTS"); return
WorkerLogSkip ==
    /\ \E t \in TasksAt("logskip") : LogManifest(t, "SKIPPED_EXISTS", "finished")
    /\ UNCHANGED <<pc, proc, stats, conc, frontier, lock, locals, mon, saving, disk,
                   hist, origin, hstack, enq, deq, pages, lastErr, flushedAt>>

\* the body is streamed to local_path
WorkerWrite ==
    /\ \E t \in TasksAt("write") :
         /\ files' = files \cup {LocalPaths[t.url, t.cd]}
         /\ tasks' = Replace(t, [t EXCEPT !.wpc = "count"])
    /\ UNCHANGED <<pc, proc, stats, conc, frontier, manifest_log, lock, locals, mon,
                   saving, ckpt, tmp, csv, hist, origin, hstack, trace>>

\* open(local_path, 'wb'): the file is created, or cut to length 0
WorkerOpen ==
    /\ \E t \in TasksAt("write") :
         /\ files' = files \ {LocalPaths[t.url, t.cd]}
         /\ tasks' = Replace(t, [t EXCEPT !.wpc = "stream"])
    /\ UNCHANGED <<pc, proc, stats, conc, frontier, manifest_log, lock, locals, mon,
                   saving, ckpt, tmp, csv, hist, origin, hstack, trace>>

\* the chunks are written and the file is closed
WorkerStream ==
    /\ \E t \in TasksAt("stream") :
         /\ files' = files \cup {LocalPaths[t.url, t.cd]}
         /\ tasks' = Replace(t, [t EXCEPT !.wpc = "count"])
    /\ UNCHANGED <<pc, proc, stats, conc, frontier, manifest_log, lock, locals, mon,
                   saving, ckpt, tmp, csv, hist, origin, hstack, trace>>

\* makedirs, open or a chunk read raises; some bytes may already be on disk
WorkerWriteFails ==
    /\ \E t \in TasksAt("write") :
         /\ files' \in {files, files \cup {LocalPaths[t.url, t.cd]}}
         /\ tasks' = Replace(t, [t EXCEPT !.wpc = "fail"])
    /\ UNCHANGED <<pc, proc, stats, conc, frontier, manifest_log, lock, locals, mon,
                   saving, ckpt, tmp, csv, hist, origin, hstack, trace>>

\* with state.lock: state.downloaded += 1
WorkerCount ==
    /\ lock = "free"
    /\ \E t \in TasksAt("count") : tasks' = Replace(t, [t EXCEPT !.wpc = "logok"])
    /\ downloaded' = downloaded + 1
    /\ UNCHANGED <<pc, proc, scanned, conc, frontier, manifest_log, lock, locals, mon,
                   saving, disk, hist, origin, hstack, trace>>

\* log_manifest(url, local_path, "SUCCESS")
WorkerLogSuccess ==
    /\ \E t \in TasksAt("logok") : LogManifest(t, "SUCCESS", "finished")
    /\ UNCHANGED <<pc, proc, stats, conc, frontier, lock, locals, mon, saving, disk,
                   hist, origin, hstack, enq, deq, pages, lastErr, flushedAt>>

\* except Exception: with state.lock: multiplicative decrease
WorkerFail ==
    /\ lock = "free"
    /\ \E t \in TasksAt("fail") : tasks' = Replace(t, [t EXCEPT !.wpc = "logfail"])
    /\ concurrency_limit' = Halve(concurrency_limit)
    /\ nfail' = nfail + 1
    /\ UNCHANGED <<pc, proc, stats, active_downloads, max_concurrency_cap, frontier,
                   manifest_log, lock, locals, mon, saving, disk, popped, popUnvisited,
                   admitLimit, tickLimit, owed, origin, hstack, trace>>

\* log_manifest(url, local_path, "FAILED", str(e))
WorkerLogFailed ==
    /\ \E t \in TasksAt("logfail") : LogManifest(t, "FAILED", "finished")
    /\ UNCHANGED <<pc, proc, stats, conc, frontier, lock, locals, mon, saving, disk,
                   hist, origin, hstack, enq, deq, pages, lastErr, flushedAt>>

\* download_task_done: with state.lock: state.active_downloads -= 1
DownloadTaskDone ==
    /\ lock = "free"
    /\ \E t \in TasksAt("finished") : tasks' = tasks (-) SetToBag({t})
    /\ active_downloads' = active_downloads - 1
    /\ UNCHANGED <<pc, proc, stats, concurrency_limit, max_concurrency_cap, frontier,
                   manifest_log, lock, locals, mon, saving, disk, hist, origin, hstack, trace>>


\* ================================================== monitor_performance()
\* while not stop_event.is_set(): time.sleep(2.0)
MonitorCheck ==
    /\ mpc = "check"
    /\ mpc' = IF stop_monitor THEN "ended" ELSE "sleep"
    /\ UNCHANGED <<pc, proc, stats, conc, frontier, manifest_log, lock, locals, tasks,
                   stop_monitor, saving, disk, hist, origin, hstack, trace>>

\* the monitor loop body: with state.lock, the AIMD additive increase
MonitorBody ==
    /\ lock = "free"
    /\ concurrency_limit' =
           Increase(active_downloads, concurrency_limit, max_concurrency_cap)
    /\ tickLimit' = concurrency_limit'
    /\ nfail' = 0
    /\ UNCHANGED <<pc, proc, stats, active_downloads, max_concurrency_cap, frontier,
                   manifest_log, lock, locals, tasks, stop_monitor, saving, disk,
                   popped, popUnvisited, admitLimit, owed, origin, hstack, trace>>

\* a tick before the checkpoint interval has run out
MonitorTick ==
    /\ mpc = "sleep"
    /\ MonitorBody
    /\ mpc' = "check"

\* a tick after which time.time() - last_save > checkpoint_interval
MonitorTickSave ==
    /\ mpc = "sleep"
    /\ MonitorBody
    /\ mpc' = "save"

\* ======================================================= save_checkpoint()
\* the URLs dequeued and not finished with: the one the dispatcher is
\* probing, fetching or scanning for links, and the downloads in the pool
Busy == ({current_url} \ {NoUrl}) \cup {t.url : t \in {x \in BagToSet(tasks) : x.wpc # "finished"}}


\* with self.lock: ... "visited": list(self.visited)
SaveEnter(thread) ==
    /\ lock = "free"
    /\ lock' = thread
    /\ \E order \in Orderings(visited) :
         data' = [visited |-> order] @@ SnapshotRest(<<>>, <<>>, 0, 0)
    /\ origin' = [origin EXCEPT !.data =
                     [visited |-> visited, busy |-> {}] @@ SnapshotRest(<<>>, <<>>, 0, 0)]
    /\ ckptBefore' = (ckpt # NoFile)
    /\ spc' = "readq"
    /\ UNCHANGED <<proc, stats, conc, frontier, manifest_log, locals, tasks,
                   stop_monitor, disk, hist, hstack, trace>>

\* the monitor's periodic state.save_checkpoint()
SaveBegin ==
    /\ mpc = "save"
    /\ SaveEnter("monitor")
    /\ mpc' = "saving"
    /\ pc' = pc

\* the thread inside save_checkpoint is running: the monitor, or the main
\* thread when no further signal handler has been entered on top of it
SaveRunning == lock = "monitor" \/ (lock = "main" /\ pc = "h_saving")

\* "queue": list(self.queue), "start_url": ..., "stats": {...}
SaveReadQueue ==
    /\ spc = "readq"
    /\ SaveRunning
    /\ data' = [visited |-> data.visited]
                   @@ SnapshotRest(queue, start_url, scanned, downloaded)
    /\ origin' = [origin EXCEPT !.data =
                     [visited |-> origin.data.visited, busy |-> Busy]
                         @@ SnapshotRest(queue, start_url, scanned, downloaded)]
    /\ spc' = "write"
    /\ UNCHANGED <<pc, proc, stats, conc, frontier, manifest_log, lock, locals, tasks,
                   mon, ckptBefore, disk, hist, hstack, trace>>

\* save_checkpoint returns to its caller and the lock is released
SaveReturn ==
    /\ lock' = "free"
    /\ spc' = "idle"
    /\ data' = NoFile
    /\ ckptBefore' = FALSE
    /\ mpc' = IF lock = "monitor" THEN "check" ELSE mpc
    /\ pc' = IF lock = "main" THEN "h_flush" ELSE pc

\* with open(temp_name, 'w') as f: json.dump(data, f)
SaveWriteTemp ==
    /\ spc = "write"
    /\ SaveRunning
    /\ tmp' = data
    /\ origin' = [origin EXCEPT !.tmp = origin.data]
    /\ spc' = "remove"
    /\ UNCHANGED <<pc, proc, stats, conc, frontier, manifest_log, lock, locals, tasks,
                   mon, data, ckptBefore, ckpt, files, csv, hist, hstack, trace>>

\* the write raises IOError: the temp file is left incomplete, error printed
SaveWriteFails ==
    /\ spc = "write"
    /\ SaveRunning
    /\ tmp' = Partial
    /\ origin' = [origin EXCEPT !.tmp = NoFile, !.data = NoFile]
    /\ SaveReturn
    /\ UNCHANGED <<proc, stats, conc, frontier, manifest_log, locals, tasks,
                   stop_monitor, ckpt, files, csv, hist, hstack, trace>>

\* if os.path.exists(filename): os.remove(filename)
SaveRemoveOld ==
    /\ spc = "remove"
    /\ SaveRunning
    /\ ckpt' = NoFile
    /\ origin' = [origin EXCEPT !.ckpt = NoFile]
    /\ spc' = "rename"
    /\ UNCHANGED <<pc, proc, stats, conc, frontier, manifest_log, lock, locals, tasks,
                   mon, data, ckptBefore, tmp, files, csv, hist, hstack, trace>>

\* os.rename(temp_name, filename)
SaveRename ==
    /\ spc = "rename"
    /\ SaveRunning
    /\ ckpt' = tmp
    /\ tmp' = NoFile
    /\ origin' = [data |-> NoFile, tmp |-> NoFile, ckpt |-> origin.tmp]
    /\ SaveReturn
    /\ UNCHANGED <<proc, stats, conc, frontier, manifest_log, locals, tasks,
                   stop_monitor, files, csv, hist, hstack, trace>>

\* ========================================================= graceful_exit()
\* positions of the main thread at which it is inside a `with state.lock`
\* section of its own
LockSections == {"admit", "inc", "scan", "final_flush", "h_flush"}

\* SIGINT or SIGTERM is delivered: the main thread is interrupted where it
\* stands and enters graceful_exit; when it stands at a lock section the
\* signal may find it before the acquire or holding the lock
Signal ==
    /\ Alive /\ pc # "exiting"
    /\ Len(hstack) < MaxSignals
    /\ \E inside \in BOOLEAN :
         /\ inside => pc \in LockSections /\ lock = "free"
         /\ lock' = IF inside THEN "main" ELSE lock
    /\ hstack' = Append(hstack, pc)
    /\ pc' = "h_save"
    /\ UNCHANGED <<proc, stats, conc, frontier, manifest_log, locals, tasks, mon,
                   saving, disk, hist, origin, trace>>

\* state.save_checkpoint() called by the handler on the main thread
HandlerSave ==
    /\ pc = "h_save"
    /\ SaveEnter("main")
    /\ pc' = "h_saving"
    /\ mpc' = mpc

\* save_manifest_csv("downloads")
HandlerFlush ==
    /\ pc = "h_flush"
    /\ lock = "free"
    /\ IF manifest_log # <<>>
       THEN /\ csv' = AppendCsv(csv, manifest_log)
            /\ manifest_log' = <<>>
       ELSE UNCHANGED <<manifest_log, csv>>
    /\ pc' = "h_exit"
    /\ UNCHANGED <<proc, stats, conc, frontier, lock, locals, tasks, mon, saving,
                   ckpt, tmp, files, hist, origin, hstack, trace>>

\* positions inside the `with ThreadPoolExecutor(...)` block
PoolBlock == {"loop", "admit", "pop", "head", "inc", "submit", "get", "links",
              "vadd", "qapp", "scan"}

\* sys.exit(0): SystemExit unwinds the main thread; leaving the executor
\* block waits for the submitted downloads; the process exits with status 0
HandlerExit ==
    /\ pc = "h_exit"
    /\ hstack[1] \in PoolBlock => tasks = EmptyBag
    /\ pc' = "stopped"
    /\ ResetMemory
    /\ UNCHANGED <<proc, disk>>

\* ===================================================== the process itself
\* the process is killed (SIGKILL, crash, power loss): memory is gone, disk stays
Kill ==
    /\ Alive
    /\ pc' = "dead"
    /\ ResetMemory
    /\ UNCHANGED <<proc, disk>>

\* the crawler is started again with the same command line in the same directory
Restart ==
    /\ ~Alive
    /\ run < MaxRuns
    /\ run' = run + 1
    /\ pc' = "start"
    /\ UNCHANGED <<max_threads_cap, call, rec, stats, conc, frontier, manifest_log, lock, locals, tasks, mon,
                   saving, disk, hist, origin, hstack, trace>>

\* the actions of a crawl: dispatcher, worker pool, AIMD monitor
NextCrawl ==
    \/ LoadCheckpoint \/ SeedQueue \/ SeedVisited \/ SeedStartUrl \/ Setup
    \/ LoopTop \/ Admit \/ Pop \/ HeadProbe \/ IncActive \/ Submit \/ SubmitFails
    \/ GetPage \/ NextLink \/ EndLinks \/ VisitedAdd \/ QueueAppend \/ ScannedInc
    \/ Cleanup \/ FinalFlush \/ RemoveCheckpoint \/ ProcessExit
    \/ WorkerPreCheck \/ WorkerGet \/ WorkerGetFails \/ WorkerLogSkip
    \/ WorkerWrite \/ WorkerWriteFails \/ WorkerCount \/ WorkerLogSuccess
    \/ WorkerFail \/ WorkerLogFailed \/ DownloadTaskDone
    \/ MonitorCheck \/ MonitorTick
    \/ Kill \/ Restart

\* the periodic checkpoint of the monitor thread
NextCheckpoint ==
    \/ MonitorTickSave
    \/ SaveBegin \/ SaveReadQueue \/ SaveWriteTemp \/ SaveWriteFails
    \/ SaveRemoveOld \/ SaveRename

\* the frontier and the checkpoint store: the crawl of pages with periodic
\* checkpoints, kills and resumes; behaviours end where a document is
\* handed to the worker pool
NextResume ==
    \/ LoadCheckpoint \/ SeedQueue \/ SeedVisited \/ SeedStartUrl \/ Setup
    \/ LoopTop \/ Admit \/ Pop \/ HeadProbe
    \/ GetPage \/ NextLink \/ EndLinks \/ VisitedAdd \/ QueueAppend \/ ScannedInc
    \/ Cleanup \/ FinalFlush \/ RemoveCheckpoint \/ ProcessExit
    \/ MonitorCheck \/ MonitorTick
    \/ MonitorTickSave
    \/ SaveBegin \/ SaveReadQueue \/ SaveWriteTemp \/ SaveWriteFails
    \/ SaveRemoveOld \/ SaveRename
    \/ Kill \/ Restart

\* the shutdown path: signal delivery and the handler on the main thread
NextShutdown == Signal \/ HandlerSave \/ HandlerFlush \/ HandlerExit

Next == NextCrawl \/ NextCheckpoint \/ NextShutdown

\* the whole program
Spec == Init /\ [][Next]_vars

\* crawls without periodic checkpoints (runs shorter than the interval)
SpecCrawl == Init /\ [][NextCrawl]_vars

\* the frontier and the checkpoint store, with the largest thread ceiling
InitResume == Init /\ max_threads_cap = MaxCap

SpecResume == InitResume /\ [][NextResume]_vars

\* ------------------------------------------------ the utility functions
\* scope roots as given on the command line, with and without trailing '/'
ScopeRoots == {StartUrl, StartUrl \o <<"/">>}

\* the same root with the trailing '/' added or taken away
OtherForm(root) ==
    IF EndsWithSlash(root) THEN SubSeq(root, 1, Len(root) - 1) ELSE root \o <<"/">>

\* candidate URLs: below the root, beside it, above it through "..",
\* the root itself, on another host
Nested == StartUrl \o <<"/", "a", "/", "b.pdf">>
Beside == Sibling \o <<"/", "x">>
DotDot == StartUrl \o <<"/", "..", "/", "secret">>
ScopeTargets ==
    {Nested, Beside, DotDot, StartUrl, StartUrl \o <<"/">>, DocA, PagePFrag,
     <<"http://other", "/", "d", "/", "a.pdf">>, <<Host, "/">>,
     StartUrl \o <<"/", "%2e%2e", "/", "secret">>}

\* document URLs: ending in a path without extension, in '/', in a file
\* name, with a query, with an encoded segment, without a path, climbing
\* above the host directory through encoded dot segments
PlainUrl == <<Host, "/", "docs", "/", "report">>
ReportsUrl == <<Host, "/", "reports", "/">>
ClimbUrl == StartUrl \o <<"/", "%2e%2e", "/", "%2e%2e", "/", "%2e%2e", "/", "x.pdf">>
PathUrls ==
    {PlainUrl, ReportsUrl, DocA, DocAQuery,
     <<Host, "/", "d", "/", "%2e%2e", "/", "x.pdf">>, <<Host>>, ClimbUrl,
     <<Host, "/", "d", "/", "a", "%2f", "b.pdf">>}

\* Content-Disposition headers: absent, quoted, unquoted, without filename,
\* with a reserved character, with an empty filename, with a separator,
\* with the parent directory as filename
ReportHeader == Attachment(<<"Report (Final).pdf">>)
PathHeaders ==
    {NoHeader, ReportHeader, <<"attachment; ", "filename=", "r.pdf">>, <<"inline">>,
     Attachment(<<"a", ":", "b.pdf">>), Attachment(<<>>),
     Attachment(<<"..", "/", "x.pdf">>), Attachment(<<"..">>)}

Calls ==
    {[fn |-> "is_subpath", a |-> t, b |-> r] : t \in ScopeTargets, r \in ScopeRoots}
        \cup {[fn |-> "get_local_path", a |-> u, b |-> cd] : u \in PathUrls, cd \in PathHeaders}

\* the module is loaded, no crawl is running, one call is about to be made
InitCall ==
    /\ pc = "done"
    /\ run = 1
    /\ max_threads_cap = MaxCap
    /\ call \in Calls
    /\ rec = FALSE
    /\ FreshMemory
    /\ ckpt = NoFile /\ tmp = NoFile /\ files = {} /\ csv = <<>>
    /\ origin = NoOrigin

Returned == HasKey(call, "ret")

\* the call returns value v
Return(v) ==
    /\ ~Returned
    /\ call' = [fn |-> call.fn, a |-> call.a, b |-> call.b, ret |-> v]
    /\ UNCHANGED <<pc, run, max_threads_cap, rec, stats, conc, frontier, manifest_log, lock,
                   locals, tasks, mon, saving, disk, hist, origin, hstack, trace>>

CallIsSubpath ==
    /\ call.fn = "is_subpath"
    /\ Return(is_subpath(call.a, call.b))

CallGetLocalPath ==
    /\ call.fn = "get_local_path"
    /\ Return(get_local_path(call.a, call.b))

NextCall == CallIsSubpath \/ CallGetLocalPath

SpecCall == InitCall /\ [][NextCall]_vars

\* ------------------------------------- GeminiAnalyzer.analyze_content()
max_retries == 3
base_delay == 2

\* random.random() * 1.0 in tenths of a second: the ends of [0, 1)
Jitters == {0, 9}

\* document texts: empty, blank, with and without the keyword (in another case)
Texts == {<<>>, <<" ">>, <<"the", "Budget", "plan">>, <<"nothing", "here">>}
KeywordLists == {<<"budget">>, <<"BUDGET", "tax">>}

\* str.lower() on the words of the model
Lower(w) == IF w \in {"Budget", "BUDGET"} THEN "budget" ELSE w

\* not text.strip()
Blank(text) == \A i \in 1..Len(text) : text[i] = " "

\* any(k.lower() in text_lower for k in keywords)
AnyKeyword(text, keywords) ==
    \E i \in 1..Len(keywords) : \E j \in 1..Len(text) :
        Lower(keywords[i]) = Lower(text[j])

\* what the stream delivers as full_text: an empty list, a list of findings,
\* one finding, another object, a number, a list cut short, nothing
ResponseTexts ==
    {<<"[", "]">>, <<"[", "{topic}", "{topic}", "]">>, <<"{topic}">>, <<"{other}">>,
     <<"7">>, <<"[", "{topic}">>, <<>>}

\* str(e) of the exceptions the client raises
ErrorTexts ==
    {<<"429", "RESOURCE_EXHAUSTED">>, <<"Too Many Requests">>, <<"404", "Not Found">>,
     <<"500", "INTERNAL">>, <<"timed out">>}

Outcomes ==
    {[kind |-> "response", text |-> t] : t \in ResponseTexts}
        \cup {[kind |-> "error", text |-> t] : t \in ErrorTexts}

\* json.loads(full_text): the value, or no value when it raises
JsonLoads(t) ==
    IF Len(t) >= 2 /\ t[1] = "[" /\ t[Len(t)] = "]"
       /\ \A i \in 2..(Len(t) - 1) : t[i] \in {"{topic}", "{other}"}
    THEN [ok |-> TRUE, type |-> "list", value |-> SubSeq(t, 2, Len(t) - 1)]
    ELSE IF Len(t) = 1 /\ t[1] \in {"{topic}", "{other}"}
    THEN [ok |-> TRUE, type |-> "dict", value |-> t]
    ELSE IF t = <<"7">>
    THEN [ok |-> TRUE, type |-> "int", value |-> t]
    ELSE [ok |-> FALSE, type |-> "none", value |-> <<>>]

\* the list returned for a response: the parsed list, the single finding
\* wrapped in a list, else the empty list
ResultOf(t) ==
    LET result == JsonLoads(t)
    IN IF result.ok /\ result.type = "list" THEN result.value
       ELSE IF result.ok /\ result.type = "dict" /\ result.value[1] = "{topic}"
       THEN result.value
       ELSE <<>>

\* mutant of IsRateLimit: every exception taken for a rate limit
IsRateLimitAlways(error_str) == TRUE

\* "429" in error_str or "Too Many Requests" in error_str
IsRateLimit(error_str) ==
    "429" \in Range(error_str) \/ "Too Many Requests" \in Range(error_str)

\* (base_delay * (2 ** attempt)) + (random.random() * 1.0), in tenths of a second
RetryDelay(attempt, jitter) == 10 * (base_delay * (2 ^ attempt)) + jitter

AnalyzeCalls ==
    {[fn |-> "analyze_content", a |-> text, b |-> keywords, at |-> "filter",
      attempt |-> 0, seen |-> <<>>, waits |-> <<>>] :
        text \in Texts, keywords \in KeywordLists}

\* an analyzer exists, no crawl is running, one document is about to be analyzed
InitAnalyze ==
    /\ pc = "done"
    /\ run = 1
    /\ max_threads_cap = MaxCap
    /\ call \in AnalyzeCalls
    /\ rec = FALSE
    /\ FreshMemory
    /\ ckpt = NoFile /\ tmp = NoFile /\ files = {} /\ csv = <<>>
    /\ origin = NoOrigin

\* analyze_content goes on with call record c
AnalyzeStep(c) ==
    /\ call.fn = "analyze_content"
    /\ ~Returned
    /\ call' = c
    /\ UNCHANGED <<pc, run, max_threads_cap, rec, stats, conc, frontier, manifest_log,
                   lock, locals, tasks, mon, saving, disk, hist, origin, hstack, trace>>

\* analyze_content returns the list v
AnalyzeReturn(v) == AnalyzeStep([ret |-> v] @@ call)

\* the two early returns before the prompt is built
AnalyzePreFilter ==
    /\ call.at = "filter"
    /\ IF Blank(call.a) \/ ~AnyKeyword(call.a, call.b)
       THEN AnalyzeReturn(<<>>)
       ELSE AnalyzeStep([call EXCEPT !.at = "request"])

\* self.client.models.generate_content_stream(...) and the reading of the
\* stream: a full text, or an exception
GenerateContentStream ==
    /\ call.at = "request"
    /\ \E out \in Outcomes :
         AnalyzeStep([call EXCEPT !.seen = Append(@, out), !.at = "handle"])

\* the rest of the loop body: the response is parsed and returned; a rate
\* limit is slept on and retried while attempts remain; any other
\* exception, and the last rate limit, return the empty list
AnalyzeHandle ==
    /\ call.at = "handle"
    /\ LET out == call.seen[Len(call.seen)]
       IN IF out.kind = "response"
          THEN AnalyzeReturn(ResultOf(out.text))
          ELSE IF IsRateLimit(out.text) /\ call.attempt < max_retries
          THEN \E jitter \in Jitters :
                   AnalyzeStep([call EXCEPT
                       !.waits = Append(@, RetryDelay(call.attempt, jitter)),
                       !.attempt = @ + 1,
                       !.at = "request"])
          ELSE AnalyzeReturn(<<>>)

NextAnalyze == AnalyzePreFilter \/ GenerateContentStream \/ AnalyzeHandle

SpecAnalyze == InitAnalyze /\ [][NextAnalyze]_vars

\* ------------------------------------------------ the end-to-end scenario
\* the links of the root page: one document in scope, one URL out of scope
RootLinks == <<DocA, Sibling>>

\* the test server: documents are served as PDF, everything else as HTML
ServesPdf(u) == EndsWithPdf(u)

\* the HEAD probe is answered with the content type of the URL
ScenarioHead ==
    /\ HeadProbe
    /\ pc' = IF ServesPdf(current_url) THEN "inc" ELSE "get"

\* the page is served
ScenarioGet == GetPage /\ pc' = "links"

\* the links of the page are met in document order
ScenarioLink ==
    /\ nlinks < Len(RootLinks)
    /\ LinkStep(RootLinks[nlinks + 1])

ScenarioEndLinks ==
    /\ nlinks = Len(RootLinks)
    /\ EndLinks

\* a crawl against a server that answers every request
NextScenario ==
    \/ LoadCheckpoint \/ SeedQueue \/ SeedVisited \/ SeedStartUrl \/ Setup
    \/ LoopTop \/ Admit \/ Pop \/ ScenarioHead \/ IncActive \/ Submit
    \/ ScenarioGet \/ ScenarioLink \/ ScenarioEndLinks
    \/ VisitedAdd \/ QueueAppend \/ ScannedInc
    \/ Cleanup \/ FinalFlush \/ RemoveCheckpoint \/ ProcessExit
    \/ WorkerPreCheck \/ WorkerGet \/ WorkerWrite \/ WorkerCount
    \/ WorkerLogSuccess \/ DownloadTaskDone
    \/ MonitorCheck \/ MonitorTick

SpecScenario == Init /\ [][NextScenario]_vars

\* ------------------------------------------------------ a mirrored site
\* the links of the root page of a site that serves one document under two
\* URLs, and sends either with or without a Content-Disposition header
MirrorLinks == <<DocA, DocAQuery>>

\* the HEAD probe: the root is a page, every link a PDF
MirrorHead ==
    /\ HeadProbe
    /\ pc' = IF current_url = StartUrl THEN "get" ELSE "inc"

MirrorLink ==
    /\ nlinks < Len(MirrorLinks)
    /\ LinkStep(MirrorLinks[nlinks + 1])

MirrorEndLinks ==
    /\ nlinks = Len(MirrorLinks)
    /\ EndLinks

\* a crawl of the mirrored site, the writing of a file in its two steps
NextMirror ==
    \/ LoadCheckpoint \/ SeedQueue \/ SeedVisited \/ SeedStartUrl \/ Setup
    \/ LoopTop \/ Admit \/ Pop \/ MirrorHead \/ IncActive \/ Submit
    \/ ScenarioGet \/ MirrorLink \/ MirrorEndLinks
    \/ VisitedAdd \/ QueueAppend \/ ScannedInc
    \/ Cleanup \/ FinalFlush \/ RemoveCheckpoint \/ ProcessExit
    \/ WorkerPreCheck \/ WorkerGet \/ WorkerLogSkip \/ WorkerOpen \/ WorkerStream
    \/ WorkerCount \/ WorkerLogSuccess \/ DownloadTaskDone
    \/ MonitorCheck \/ MonitorTick

SpecMirror == InitResume /\ [][NextMirror]_vars

\* a JSON object without one of its keys
Without(c, k) == [x \in DOMAIN c \ {k} |-> c[x]]

\* a complete checkpoint left by an earlier crawl of the same site
OldCheckpoint ==
    [visited |-> <<StartUrl, PageP>>] @@ SnapshotRest(<<PageP>>, StartUrl, 1, 0)

\* checkpoint files found at start: complete, cut short, or well-formed
\* JSON with a key missing
FoundCheckpoints ==
    {OldCheckpoint, Partial}
        \cup {Without(OldCheckpoint, k) : k \in {"visited", "queue", "stats"}}

\* a start in a directory that already holds a checkpoint file
InitLoad ==
    /\ pc = "start"
    /\ run = 1
    /\ max_threads_cap = MaxCap
    /\ call = NoCall
    /\ rec = FALSE
    /\ FreshMemory
    /\ ckpt \in FoundCheckpoints /\ tmp = NoFile /\ files = {} /\ csv = <<>>
    /\ origin = NoOrigin

\* one crawl of pages from start to exit, without periodic checkpoints
NextLoad ==
    \/ LoadCheckpoint \/ SeedQueue \/ SeedVisited \/ SeedStartUrl \/ Setup
    \/ LoopTop \/ Admit \/ Pop \/ HeadProbe
    \/ GetPage \/ NextLink \/ EndLinks \/ VisitedAdd \/ QueueAppend \/ ScannedInc
    \/ Cleanup \/ FinalFlush \/ RemoveCheckpoint \/ ProcessExit
    \/ MonitorCheck \/ MonitorTick

SpecLoad == InitLoad /\ [][NextLoad]_vars

\* the steps of the main thread in a crawl of pages, handler included
MainThread ==
    \/ LoadCheckpoint \/ SeedQueue \/ SeedVisited \/ SeedStartUrl \/ Setup
    \/ LoopTop \/ Admit \/ Pop \/ HeadProbe
    \/ GetPage \/ NextLink \/ EndLinks \/ VisitedAdd \/ QueueAppend \/ ScannedInc
    \/ Cleanup \/ FinalFlush \/ RemoveCheckpoint \/ ProcessExit
    \/ HandlerSave \/ HandlerFlush \/ HandlerExit

\* the steps of the monitor thread outside save_checkpoint
MonitorThread == MonitorCheck \/ MonitorTick \/ MonitorTickSave \/ SaveBegin

\* the steps inside save_checkpoint, taken by whichever thread holds the lock
SaveSteps ==
    SaveReadQueue \/ SaveWriteTemp \/ SaveWriteFails \/ SaveRemoveOld \/ SaveRename

\* one run of a crawl of pages with periodic checkpoints and signals
NextSignal == MainThread \/ MonitorThread \/ SaveSteps \/ Signal

\* every thread keeps running, and a thread waiting for state.lock gets it
\* when the lock is released again and again
SpecSignal ==
    /\ InitResume
    /\ [][NextSignal]_vars
    /\ SF_vars(MainThread)
    /\ WF_vars(MonitorThread)
    /\ WF_vars(SaveSteps)


\* ------------------------------------------------- recorded behaviours
\* a fresh start whose queue operations, page scans and failed requests of
\* the dispatcher are recorded
InitRecorded ==
    /\ pc = "start"
    /\ run = 1
    /\ max_threads_cap = MaxCap
    /\ call = NoCall
    /\ rec = TRUE
    /\ FreshMemory
    /\ ckpt = NoFile /\ tmp = NoFile /\ files = {} /\ csv = <<>>
    /\ origin = NoOrigin

\* one run of a crawl from start to exit: dispatcher, worker pool, monitor
NextRun ==
    \/ LoadCheckpoint \/ SeedQueue \/ SeedVisited \/ SeedStartUrl \/ Setup
    \/ LoopTop \/ Admit \/ Pop \/ HeadProbe \/ IncActive \/ Submit \/ SubmitFails
    \/ GetPage \/ NextLink \/ EndLinks \/ VisitedAdd \/ QueueAppend \/ ScannedInc
    \/ Cleanup \/ FinalFlush \/ RemoveCheckpoint \/ ProcessExit
    \/ WorkerPreCheck \/ WorkerGet \/ WorkerGetFails
    \/ WorkerWrite \/ WorkerWriteFails \/ WorkerCount \/ WorkerLogSuccess
    \/ WorkerFail \/ WorkerLogFailed \/ DownloadTaskDone
    \/ MonitorCheck \/ MonitorTick

\* one recorded run of a crawl
SpecRun == InitRecorded /\ [][NextRun]_vars

\* the steps of the dispatcher, of the download tasks, of the monitor
Dispatcher ==
    \/ LoadCheckpoint \/ SeedQueue \/ SeedVisited \/ SeedStartUrl \/ Setup
    \/ LoopTop \/ Admit \/ Pop \/ HeadProbe \/ IncActive \/ Submit \/ SubmitFails
    \/ GetPage \/ NextLink \/ EndLinks \/ VisitedAdd \/ QueueAppend \/ ScannedInc
    \/ Cleanup \/ FinalFlush \/ RemoveCheckpoint \/ ProcessExit

PoolWorkers ==
    \/ WorkerPreCheck \/ WorkerGet \/ WorkerGetFails
    \/ WorkerWrite \/ WorkerWriteFails \/ WorkerCount \/ WorkerLogSuccess
    \/ WorkerFail \/ WorkerLogFailed \/ DownloadTaskDone

MonitorLoop == MonitorCheck \/ MonitorTick

\* one recorded run in which every thread keeps running: every request and
\* every download returns, and no signal is delivered
SpecFairRun ==
    /\ InitRecorded
    /\ [][NextRun]_vars
    /\ WF_vars(Dispatcher)
    /\ WF_vars(PoolWorkers)
    /\ WF_vars(MonitorLoop)

\* recorded crawls of pages with periodic checkpoints, kills and resumes
SpecOrder == InitRecorded /\ [][NextResume]_vars

\* ------------------------------------------------- the manifest cadence
\* the checkpoint of a crawl that was stopped one document short of the
\* flush interval, two documents still queued
NearFlushCheckpoint ==
    [visited |-> <<StartUrl, DocA, PageP>>]
        @@ SnapshotRest(<<DocA, PageP>>, StartUrl, 2, FlushInterval - 1)

\* a recorded start in the directory of that checkpoint
InitCadence ==
    /\ pc = "start"
    /\ run = 1
    /\ max_threads_cap = MaxCap
    /\ call = NoCall
    /\ rec = TRUE
    /\ FreshMemory
    /\ ckpt = NearFlushCheckpoint /\ tmp = NoFile /\ files = {} /\ csv = <<>>
    /\ origin = NoOrigin

\* one run of a crawl, the report file writable or not; every link of the
\* site is in visited already
NextCadence ==
    \/ LoadCheckpoint \/ Setup
    \/ LoopTop \/ LoopTopFlushFails \/ Admit \/ Pop \/ HeadProbe
    \/ IncActive \/ Submit \/ SubmitFails
    \/ GetPage \/ NextLink \/ EndLinks
    \/ Cleanup \/ FinalFlush \/ FinalFlushFails \/ RemoveCheckpoint \/ ProcessExit
    \/ WorkerPreCheck \/ WorkerGet \/ WorkerGetFails
    \/ WorkerWrite \/ WorkerWriteFails \/ WorkerCount \/ WorkerLogSuccess
    \/ WorkerFail \/ WorkerLogFailed \/ DownloadTaskDone
    \/ MonitorCheck \/ MonitorTick

SpecCadence == InitCadence /\ [][NextCadence]_vars

\* ================================================================= claims
\* the main thread is past seeding or loading
Seeded == Alive /\ pc \notin {"start", "seed_q", "seed_v", "seed_s"}

\* download tasks that were counted at dispatch and have not been counted off
InFlight == BagCardinality(tasks) + (IF pc = "submit" THEN 1 ELSE 0)

\* a step of the monitor loop body
IsTick == mpc = "sleep" /\ mpc' \in {"check", "save"}

\* C1: in one run every URL is popped from the queue at most once, and no
\* URL is popped that is not in visited.
C1_NoDuplicateDispatch ==
    /\ \A u \in AbsUrls : popped[u] <= 1
    /\ ~popUnvisited

\* C2: once the run is seeded or loaded, every URL in the queue is in visited.
C2_VisitedSuperset == Seeded => Range(queue) \subseteq visited

\* C3 as stated: active_downloads never exceeds concurrency_limit.
C3_ActiveWithinLimit == active_downloads <= concurrency_limit

\* C3 amended: active_downloads never exceeds the value concurrency_limit
\* had at the dispatcher's latest admission check that admitted a task.
C3_ActiveWithinAdmittedLimit == active_downloads <= admitLimit

\* C3 witness: a failure has halved the limit below the number of downloads
\* still in flight.
C3_Witness == active_downloads > concurrency_limit /\ BagCardinality(tasks) > 1

\* C4: 1 <= concurrency_limit <= max_concurrency_cap in every state.
C4_LimitRange ==
    /\ 1 <= concurrency_limit
    /\ concurrency_limit <= max_concurrency_cap

\* C5: after k failed downloads since the last monitor tick (or the start),
\* the limit is the limit L of that moment floor-halved k times, that is
\* max(1, L div 2^k), and it is never below 1.
C5_MultiplicativeDecrease ==
    /\ concurrency_limit = Max(1, tickLimit \div (2 ^ nfail))
    /\ concurrency_limit >= 1

\* C5 witness: two failures in a row from a limit of at least 3.
C5_Witness == nfail >= 2 /\ tickLimit >= 3

\* C6: a monitor tick raises the limit by exactly 1 when active_downloads >=
\* concurrency_limit - 1 and the limit is below the cap, and leaves it
\* unchanged otherwise; nothing else raises the limit within a run, so under
\* saturation it climbs one per tick to the cap and stays.
C6_AdditiveIncrease ==
    [][/\ IsTick =>
            concurrency_limit' =
                IF active_downloads >= concurrency_limit - 1
                   /\ concurrency_limit < max_concurrency_cap
                THEN concurrency_limit + 1
                ELSE concurrency_limit
       /\ (Alive /\ pc' \notin {"dead", "done"} /\ concurrency_limit' > concurrency_limit)
            => IsTick /\ concurrency_limit' <= max_concurrency_cap]_vars

\* C6 witness: the limit has climbed from its initial value to the cap.
C6_Witness ==
    /\ max_concurrency_cap = MaxCap
    /\ concurrency_limit = max_concurrency_cap
    /\ concurrency_limit > InitialLimit
    /\ mpc = "check"

\* C7: active_downloads is never negative and equals the number of
\* dispatched download tasks whose completion has not been counted.
C7_SymmetricAccounting ==
    /\ active_downloads >= 0
    /\ active_downloads = InFlight

\* C8: a download task that has returned has appended exactly one manifest entry.
C8_OneManifestEntry == \A t \in TasksAt("finished") : t.nlog = 1

\* C9: while save_checkpoint runs with a checkpoint file present at its
\* start, the checkpoint file is present and complete.
C9_AtomicCheckpoint ==
    (lock = "monitor" /\ ckptBefore /\ Alive /\ pc # "exiting") => ckpt.kind = "json"

C11_CorruptMeansFresh ==
    (pc = "setup" /\ ~resumed) =>
        /\ visited = {StartUrl}
        /\ queue = <<StartUrl>>
        /\ start_url = StartUrl

\* C12: no snapshot taken by save_checkpoint holds a newly discovered URL
\* in visited that is not yet in queue, the state in the middle of an offer.
C12_ConsistentSnapshot ==
    (spc = "write" /\ pc = "qapp") =>
        ~(abs_url \in Range(data.visited) /\ abs_url \notin Range(data.queue))

\* C13: when a resumed run has completed, every URL that was discovered but
\* unfinished when its checkpoint was taken (queued, or dequeued and in
\* flight) has been dispatched by the resumed run.
C13_NoWorkLost ==
    (resumed /\ pc = "exiting") => \A u \in owed : popped[u] >= 1

\* C16: after crawl() has finished naturally and the process has exited,
\* the checkpoint file does not exist.
C16_CheckpointAbsent == pc = "done" => ckpt = NoFile

\* C17: in a fresh run on a root page linking to one in-scope document and
\* one out-of-scope URL, the out-of-scope URL is never enqueued or
\* requested, and when the run completes exactly one document has been
\* fetched and the manifest log holds exactly one entry, SUCCESS for it.
C17_EndToEnd ==
    /\ popped[Sibling] = 0
    /\ Sibling \notin Range(queue) \cup visited
    /\ pc = "exiting" =>
          /\ \E cd \in CdHeaders : files = {get_local_path(DocA, cd)}
          /\ downloaded = 1
          /\ manifest_log = <<>>
          /\ csv = <<"header", ManifestEntry(DocA, "SUCCESS")>>

\* C17 witness: the run has completed and the report has been written.
C17_Witness == pc = "exiting" /\ Len(csv) = 2 /\ scanned = 1

\* C18: is_subpath is true for root/a/b.pdf, false for root2/x and for
\* root/../secret, and gives the same result for a root with and without
\* trailing '/'.
C18_ScopeContainment ==
    (call.fn = "is_subpath" /\ Returned) =>
        /\ call.a = Nested => call.ret = TRUE
        /\ call.a = Beside => call.ret = FALSE
        /\ call.a = DotDot => call.ret = FALSE
        /\ call.ret = is_subpath(call.a, OtherForm(call.b))

\* the file name of a resolved local path
FileName(path) == path[Len(path)]

\* C20: get_local_path names the file after the sanitized filename of the
\* Content-Disposition header when the header yields one, else after the
\* URL path basename when that contains a '.', else index_doc.pdf; a URL
\* without extension with server filename 'Report (Final).pdf' gets that
\* name, a URL ending in /reports/ without server filename the fallback.
C20_FilenamePrecedence ==
    (call.fn = "get_local_path" /\ Returned) =>
        LET declared == get_filename_from_cd(call.b)
            base == Basename(UrlPath(call.a))
            name == FileName(call.ret)
        IN /\ declared # NoName => name = sanitize_filename(declared)
           /\ (declared = NoName /\ HasDot(base)) => name = sanitize_filename(Unquote(base))
           /\ (declared = NoName /\ ~HasDot(base)) => name = <<"index_doc.pdf">>
           /\ (call.a = PlainUrl /\ call.b = ReportHeader) => name = <<"Report (Final).pdf">>
           /\ (call.a = ReportsUrl /\ call.b = NoHeader) => name = <<"index_doc.pdf">>

\* C20 witness: the URL without extension has been resolved with the
\* server filename 'Report (Final).pdf'.
C20_Witness ==
    /\ call.fn = "get_local_path" /\ Returned
    /\ call.a = PlainUrl /\ call.b = ReportHeader
    /\ Len(call.ret) = 4

\* the URLs dispatched so far in this run
Dispatched == {u \in AbsUrls : popped[u] > 0}

\* C19: in a fresh or resumed run every URL in the queue and every URL
\* dispatched, other than the seed URL, carries no fragment and starts with
\* the scope root normalized to end in '/'.
C19_ScopeOnFrontier ==
    Seeded =>
        \A u \in Range(queue) \cup Dispatched \cup Busy :
            \/ u = start_url
            \/ /\ "#" \notin Range(u)
               /\ StartsWith(u, start_url \o <<"/">>)

\* C19 witness: a resumed run holds a discovered document in its queue
\* while it scans a discovered page.
C19_Witness ==
    /\ resumed /\ Seeded
    /\ DocA \in Range(queue)
    /\ current_url = PageP

\* C21: no component of the path get_local_path returns below base_dir is
\* the parent directory ".." and none contains a path separator, for every
\* URL and every Content-Disposition header
C21_NoPathTraversal ==
    (call.fn = "get_local_path" /\ Returned)
        => \A i \in 1..Len(call.ret) :
               /\ call.ret[i] # <<"..">>
               /\ Range(call.ret[i]) \cap {"/", "\\"} = {}

\* a request of the dispatcher for current_url fails: the HEAD probe or the
\* page fetch
DispatcherFetchFails == pc \in {"head", "get"} /\ lastErr' # "none"

\* the exception handler of a download task runs
DownloadFails == nfail' = nfail + 1

\* C22: every failed fetch of a dequeued URL (HEAD probe, page fetch,
\* document download) halves the concurrency limit once and is recorded as
\* exactly one FAILED manifest entry, and the main loop goes on.
C22_FetchFailureHandled ==
    [][/\ DispatcherFetchFails =>
            /\ concurrency_limit' = Halve(concurrency_limit)
            /\ manifest_log' = Append(manifest_log, ManifestEntry(current_url, "FAILED"))
            /\ pc' = "loop"
       /\ DownloadFails =>
            /\ concurrency_limit' = Halve(concurrency_limit)
            /\ pc' = pc
       /\ \A t \in BagToSet(tasks) :
            /\ t.wpc = "logfail" => t.nlog = 0
            /\ t.wpc = "finished" => t.nlog <= 1]_vars

\* the exceptions that are rate-limit signals of the service
RateLimitErrors == {<<"429", "RESOURCE_EXHAUSTED">>, <<"Too Many Requests">>}

\* C23: analyze_content calls the model again only after a rate-limit
\* error, makes at most max_retries + 1 = 4 calls, waits at least
\* base_delay * 2^k seconds before retry k, makes no call after any other
\* error, and returns a list in every case: the empty one after an error or
\* after the last rate limit.
C23_RetryProtocol ==
    call.fn = "analyze_content" =>
        /\ Len(call.seen) <= max_retries + 1
        /\ Len(call.seen) <= call.attempt + 1
        /\ Len(call.waits) = call.attempt
        /\ \A k \in 0..(call.attempt - 1) :
               /\ call.seen[k + 1].kind = "error"
               /\ call.seen[k + 1].text \in RateLimitErrors
               /\ call.waits[k + 1] >= 10 * base_delay * (2 ^ k)
        /\ Returned =>
               /\ call.ret \in Seq({"{topic}", "{other}"})
               /\ (call.seen # <<>> /\ call.seen[Len(call.seen)].kind = "error")
                      => call.ret = <<>>

\* C23 witness: three rate limits were retried and the fourth ended the
\* analysis with the empty list.
C23_Witness ==
    /\ call.fn = "analyze_content"
    /\ Returned
    /\ Len(call.seen) = max_retries + 1
    /\ \A i \in 1..Len(call.seen) : call.seen[i].text \in RateLimitErrors
    /\ call.ret = <<>>

\* C24: the URLs are taken off the queue in exactly the order in which they
\* were put on it, the seed first in a fresh run; after a resume the order
\* is that of the queue the checkpoint was taken from.
C24_FifoOrder ==
    /\ Len(deq) <= Len(enq)
    /\ deq = SubSeq(enq, 1, Len(deq))
    /\ (Seeded /\ ~resumed) => enq[1] = StartUrl

\* C24 witness: a resumed run has taken two URLs off the queue that the
\* earlier run had put on it in that order.
C24_Witness ==
    /\ resumed
    /\ Len(deq) >= 2
    /\ deq[1] # deq[2]
    /\ pc = "head"

\* the dispatcher counts a download in: active_downloads += 1, followed by
\* the submission to the pool
IsDispatch == pc = "inc" /\ pc' = "submit"

\* C25: at the instant a task is dispatched active_downloads is below
\* concurrency_limit, also when a failing download has halved the limit
\* after the admission check.
C25_AdmissionGuard == [][IsDispatch => active_downloads < concurrency_limit]_vars

\* the local path a download task writes to
LocalPath(t) == LocalPaths[t.url, t.cd]

\* C26: two download tasks for distinct URLs never have the same local path
\* open for writing at the same time.
C26_NoContendedWrites ==
    \A t1, t2 \in BagToSet(tasks) :
        (t1.wpc = "stream" /\ t2.wpc = "stream" /\ t1.url # t2.url)
            => LocalPath(t1) # LocalPath(t2)

\* the rows of the report after its header
Rows(file) == IF file = <<>> THEN <<>> ELSE Tail(file)

C28_CountCadence ==
    LET multiple == (downloaded \div FlushInterval) * FlushInterval
    IN (multiple > 0 /\ downloaded > multiple) => flushedAt = multiple

\* C29: in a fresh run, between two iterations of the main loop
\* state.scanned equals the number of pages fetched and scanned for links.
C29_ScannedCounter == (~resumed /\ pc = "loop") => scanned = pages

\* C30: when every request and every download returns and no signal is
\* delivered, the main loop eventually exits, and it exits with the queue
\* empty, no download active and every enqueued URL dequeued.
C30_CrawlTerminates ==
    <>(pc = "cleanup" /\ queue = <<>> /\ active_downloads = 0 /\ deq = enq)

\* C14: a termination signal leads to the exit of the process with status 0
\* (unless a further signal arrives on top of it).
C14_ShutdownCompletes ==
    (Len(hstack) = 1) ~> (pc = "stopped" \/ Len(hstack) > 1)

\* C15: when a second signal arrives while the handler of the first is
\* still running, the shutdown still runs to completion.
C15_ReentrantShutdown == (Len(hstack) = 2) ~> (pc = "stopped")

====
